---- MODULE Spec2Model ----
(***************************************************************************)
(* Model of genai-fundamentals/vector_cypher_rag.py: a script that opens   *)
(* a Neo4j driver, builds a VectorCypherRetriever and a GraphRAG pipeline, *)
(* runs one rag.search, prints the answer and the retrieved context, and   *)
(* closes the driver.                                                      *)
(*                                                                         *)
(* The script is straight-line Python with no try/except/finally/with: an  *)
(* exception raised by any call ends the run at that line.                 *)
(***************************************************************************)
EXTENDS Integers, Sequences, FiniteSets, TLC

\* ---------------------------------------------------------------------
\* Bounds and program constants
\* ---------------------------------------------------------------------

\* number of nodes held by the vector index "moviePlots"
MaxNodes == 6

\* retriever_config={"top_k": 5}
TopK == 5

\* return_context=True
return_context == TRUE

\* texts the chat model may produce (its output is not repeatable)
AnswerTexts == {"answer-1", "answer-2"}

Nodes == 1..MaxNodes

\* Shapes a node of the graph can have: its properties, the rating values
\* of its incoming RATED relationships and the names reached over
\* IN_GENRE, ACTED_IN and DIRECTED.
NodeKinds ==
    { [title |-> "Alien", plot |-> "p-alien", ratings |-> << >>,
       genres |-> <<"Action", "SciFi">>, actors |-> <<"Weaver">>,
       directors |-> <<"Scott">>],
      [title |-> "Solaris", plot |-> "p-solaris", ratings |-> <<5>>,
       genres |-> << >>, actors |-> << >>, directors |-> << >>],
      [title |-> "Dune", plot |-> "p-dune", ratings |-> <<2, 5>>,
       genres |-> <<"SciFi">>, actors |-> <<"Chalamet", "Zendaya">>,
       directors |-> <<"Villeneuve">>],
      [title |-> "Contact", plot |-> "p-contact", ratings |-> <<3>>,
       genres |-> <<"Drama">>, actors |-> << >>,
       directors |-> <<"Zemeckis">>] }

VARIABLES
    pc,          \* the line of the script about to run, "done" or "error"
    env,         \* which of NEO4J_URI / NEO4J_USERNAME / NEO4J_PASSWORD are set
    db,          \* the graph: node -> its kind
    driver,      \* "none" | "open" | "closed"
    log,         \* the steps performed so far, in order
    items,       \* retriever_result.items of the search in progress
    prompt,      \* the context block handed to the LLM (a sequence of lines)
    response,    \* the RagResultModel returned by rag.search
    stdout,      \* what has been printed
    failedAt     \* the step whose exception ended the run, or "none"

vars == <<pc, env, db, driver, log, items, prompt, response, stdout, failedAt>>

NoResponse == [answer |-> "", has_context |-> FALSE, retriever_result |-> << >>]

\* ---------------------------------------------------------------------
\* The retrieval: vector search followed by retrieval_query
\* ---------------------------------------------------------------------

Min(a, b) == IF a < b THEN a ELSE b

\* similarity score of a node for the fixed query; nodes are numbered by
\* decreasing similarity and neighbouring nodes may tie
score(n) == MaxNodes - ((n - 1) \div 2)

\* db.index.vector.queryNodes(index, top_k, embedding) YIELD node, score:
\* the top_k nearest nodes of the index
VectorSearch(k) == 1..Min(k, MaxNodes)

RECURSIVE SeqSum(_)
SeqSum(s) == IF s = << >> THEN 0 ELSE s[1] + SeqSum(Tail(s))

\* the value of a column that has no value
Null == "null"

CollectOrNull(names) == IF names = << >> THEN Null ELSE names

\* collect { MATCH ... RETURN x.name }: the list of the rows the subquery
\* returns (names, in order), the empty list when it returns no row
Collect(names) == names

\* the non-aggregated RETURN columns; Cypher groups the matched rows by them
GroupKey(g, n) ==
    [title |-> g[n].title, plot |-> g[n].plot, similarityScore |-> score(n),
     genres |-> Collect(g[n].genres), actors |-> Collect(g[n].actors),
     directors |-> Collect(g[n].directors)]

MatchedOptional(g, cands) == cands

\* MATCH (node)<-[r:RATED]-() : one row per incoming RATED relationship,
\* so a node without any yields no row
Matched(g, cands) == {n \in cands : Len(g[n].ratings) > 0}

RECURSIVE SumRatings(_, _)
SumRatings(g, ns) ==
    IF ns = {} THEN 0
    ELSE LET n == CHOOSE x \in ns : TRUE
         IN SeqSum(g[n].ratings) + SumRatings(g, ns \ {n})

RECURSIVE CountRatings(_, _)
CountRatings(g, ns) ==
    IF ns = {} THEN 0
    ELSE LET n == CHOOSE x \in ns : TRUE
         IN Len(g[n].ratings) + CountRatings(g, ns \ {n})

\* avg(r.rating) as userRating, kept exact as sum / count
Records(g, cands) ==
    { LET grp == {n \in Matched(g, cands) : GroupKey(g, n) = k}
      IN [title |-> k.title, plot |-> k.plot,
          similarityScore |-> k.similarityScore,
          genres |-> k.genres, actors |-> k.actors, directors |-> k.directors,
          userRating |-> [sum |-> SumRatings(g, grp),
                          count |-> CountRatings(g, grp)]]
      : k \in {GroupKey(g, n) : n \in Matched(g, cands)} }

\* a.userRating >= b.userRating
RatingGeq(a, b) ==
    a.userRating.sum * b.userRating.count >= b.userRating.sum * a.userRating.count

\* a.similarityScore >= b.similarityScore
ScoreGeq(a, b) == a.similarityScore >= b.similarityScore

RECURSIVE OrderByScoreDesc(_)
OrderByScoreDesc(S) ==
    IF S = {} THEN { << >> }
    ELSE UNION { { <<m>> \o t : t \in OrderByScoreDesc(S \ {m}) }
                 : m \in {x \in S : \A y \in S : ScoreGeq(x, y)} }

\* ORDER BY userRating DESC: every order of the rows that is non-increasing
\* in userRating (the order among equal ratings is not determined)
RECURSIVE OrderByRatingDesc(_)
OrderByRatingDesc(S) ==
    IF S = {} THEN { << >> }
    ELSE UNION { { <<m>> \o t : t \in OrderByRatingDesc(S \ {m}) }
                 : m \in {x \in S : \A y \in S : RatingGeq(x, y)} }

\* retriever.search(query_text, top_k): the possible retriever_result.items
Retrieve(g, k) == OrderByRatingDesc(Records(g, VectorSearch(k)))

\* context = "\n".join(item.content for item in retriever_result.items)
Context(its) == [i \in 1..Len(its) |-> its[i].title]

RagResultTruncated(a, its, rc) ==
    [answer |-> a, has_context |-> rc,
     retriever_result |-> IF rc /\ its # << >> THEN Tail(its) ELSE << >>]

\* the RagResultModel: the answer, and the retriever result when
\* return_context is set
RagResult(a, its, rc) ==
    [answer |-> a, has_context |-> rc,
     retriever_result |-> IF rc THEN its ELSE << >>]

\* ---------------------------------------------------------------------
\* The script
\* ---------------------------------------------------------------------

Init ==
    /\ pc = "driver"
    /\ env \in [uri : BOOLEAN, username : BOOLEAN, password : BOOLEAN]
    /\ db \in [Nodes -> NodeKinds]
    /\ driver = "none"
    /\ log = << >>
    /\ items = << >>
    /\ prompt = << >>
    /\ response = NoResponse
    /\ stdout = << >>
    /\ failedAt = "none"

RaiseHandled(step) ==
    /\ pc' = "error"
    /\ failedAt' = step
    /\ stdout' = Append(stdout, [what |-> "answer", answer |-> "", context |-> << >>])
    /\ UNCHANGED <<env, db, driver, log, items, prompt, response>>

\* an uncaught exception at the current line: the interpreter exits there
Raise(step) ==
    /\ pc' = "error"
    /\ failedAt' = step
    /\ UNCHANGED <<env, db, driver, log, items, prompt, response, stdout>>

\* GraphDatabase.driver(os.getenv("NEO4J_URI"), auth=(...)): the URI is
\* parsed here, the credentials are only stored (no connection is made)
OpenDriver ==
    /\ pc = "driver"
    /\ env.uri
    /\ driver' = "open"
    /\ log' = Append(log, "open")
    /\ pc' = "embedder"
    /\ UNCHANGED <<env, db, items, prompt, response, stdout, failedAt>>

OpenDriverFails ==
    /\ pc = "driver"
    /\ ~env.uri
    /\ Raise("driver")

\* OpenAIEmbeddings(model="text-embedding-ada-002"): builds the client only
CreateEmbedder ==
    /\ pc = "embedder"
    /\ pc' = "retriever"
    /\ UNCHANGED <<env, db, driver, log, items, prompt, response, stdout, failedAt>>

\* VectorCypherRetriever(driver, index_name="moviePlots", ...): the
\* constructor queries the server (version, index information), which is the
\* first use of the connection and the first time the credentials are sent
CreateRetriever ==
    /\ pc = "retriever"
    /\ env.username /\ env.password
    /\ log' = Append(log, "retriever_init")
    /\ pc' = "llm"
    /\ UNCHANGED <<env, db, driver, items, prompt, response, stdout, failedAt>>

\* credentials rejected, or the database unreachable
CreateRetrieverFails ==
    /\ pc = "retriever"
    /\ Raise("retriever")

\* OpenAILLM(model_name="gpt-4o")
CreateLLM ==
    /\ pc = "llm"
    /\ pc' = "rag"
    /\ UNCHANGED <<env, db, driver, log, items, prompt, response, stdout, failedAt>>

\* GraphRAG(retriever=retriever, llm=llm)
CreateRAG ==
    /\ pc = "rag"
    /\ pc' = "embed"
    /\ UNCHANGED <<env, db, driver, log, items, prompt, response, stdout, failedAt>>

\* rag.search, first external call: the embedding of query_text
Embed ==
    /\ pc = "embed"
    /\ log' = Append(log, "embed")
    /\ pc' = "retrieve"
    /\ UNCHANGED <<env, db, driver, items, prompt, response, stdout, failedAt>>

EmbedFails ==
    /\ pc = "embed"
    /\ Raise("embed")

\* rag.search, second external call: the vector index search with
\* retrieval_query appended, run on the connection
RetrieveStep ==
    /\ pc = "retrieve"
    /\ \E r \in Retrieve(db, TopK) : items' = r
    /\ log' = log \o <<"index_search", "enrichment">>
    /\ pc' = "generate"
    /\ UNCHANGED <<env, db, driver, prompt, response, stdout, failedAt>>

RetrieveFails ==
    /\ pc = "retrieve"
    /\ Raise("retrieve")

\* rag.search, third external call: the prompt is built from the items and
\* sent to the LLM; the result carries the items when return_context is set
Generate ==
    /\ pc = "generate"
    /\ prompt' = Context(items)
    /\ \E a \in AnswerTexts : response' = RagResult(a, items, return_context)
    /\ log' = Append(log, "generate")
    /\ pc' = "print_answer"
    /\ UNCHANGED <<env, db, driver, items, stdout, failedAt>>

GenerateFails ==
    /\ pc = "generate"
    /\ prompt' = Context(items)
    /\ log' = Append(log, "generate")
    /\ pc' = "error"
    /\ failedAt' = "generate"
    /\ UNCHANGED <<env, db, driver, items, response, stdout>>

PrintAnswerLast ==
    /\ pc = "print_answer"
    /\ stdout' = Append(stdout, [what |-> "context", answer |-> "",
                                 context |-> response.retriever_result])
    /\ log' = Append(log, "print_context")
    /\ pc' = "print_context"
    /\ UNCHANGED <<env, db, driver, items, prompt, response, failedAt>>

\* print(response.answer)
PrintAnswer ==
    /\ pc = "print_answer"
    /\ stdout' = Append(stdout, [what |-> "answer", answer |-> response.answer,
                                 context |-> << >>])
    /\ log' = Append(log, "print_answer")
    /\ pc' = "print_context"
    /\ UNCHANGED <<env, db, driver, items, prompt, response, failedAt>>

\* print("CONTEXT:", response.retriever_result.items)
PrintContext ==
    /\ pc = "print_context"
    /\ IF response.has_context
       THEN /\ stdout' = Append(stdout, [what |-> "context", answer |-> "",
                                         context |-> response.retriever_result])
            /\ log' = Append(log, "print_context")
            /\ pc' = "close"
            /\ UNCHANGED <<env, db, driver, items, prompt, response, failedAt>>
       ELSE Raise("print_context")

\* driver.close()
Close ==
    /\ pc = "close"
    /\ driver' = "closed"
    /\ log' = Append(log, "close")
    /\ pc' = "done"
    /\ UNCHANGED <<env, db, items, prompt, response, stdout, failedAt>>

Next ==
    \/ OpenDriver
    \/ OpenDriverFails
    \/ CreateEmbedder
    \/ CreateRetriever
    \/ CreateRetrieverFails
    \/ CreateLLM
    \/ CreateRAG
    \/ Embed
    \/ EmbedFails
    \/ RetrieveStep
    \/ RetrieveFails
    \/ Generate
    \/ GenerateFails
    \/ PrintAnswer
    \/ PrintContext
    \/ Close

Spec == Init /\ [][Next]_vars

TypeOK ==
    /\ pc \in {"driver", "embedder", "retriever", "llm", "rag", "embed",
               "retrieve", "generate", "print_answer", "print_context",
               "close", "done", "error"}
    /\ driver \in {"none", "open", "closed"}
    /\ Len(items) <= MaxNodes

\* ---------------------------------------------------------------------
\* Properties
\* ---------------------------------------------------------------------

InLog(step) == \E i \in DOMAIN log : log[i] = step

IsPrefix(s, t) == Len(s) <= Len(t) /\ \A i \in 1..Len(s) : s[i] = t[i]

Terminated == pc \in {"done", "error"}

EnvComplete == env.uri /\ env.username /\ env.password

Retrieved == InLog("enrichment")

\* the steps of a run that completes, in the order of the script
StepOrder ==
    <<"open", "retriever_init", "embed", "index_search", "enrichment",
      "generate", "print_answer", "print_context", "close">>

\* the context block the design asks for when nothing was retrieved
NoEvidenceContext == <<"no supporting evidence found">>

\* C1: the connection is released on every exit path: no run terminates,
\* normally or by an error, with the driver still open.
C1_ReleasedOnEveryExit == Terminated => driver # "open"

\* C2: the retrieved records are at most top_k and are ordered by
\* non-increasing userRating, whatever the ratings and similarity scores.
\* The run's own items are checked in every state after the retrieval; the
\* other positive values of top_k are checked on the same graph.
C2_AtMostKByRatingDesc ==
    Retrieved =>
        /\ Len(items) <= TopK
        /\ \A i, j \in 1..Len(items) :
             i < j => items[i].userRating.sum * items[j].userRating.count
                        >= items[j].userRating.sum * items[i].userRating.count
        /\ pc = "generate" =>
             \A k \in 1..(MaxNodes + 1) : \A r \in Retrieve(db, k) :
                 /\ Len(r) <= k
                 /\ \A i, j \in 1..Len(r) :
                      i < j => r[i].userRating.sum * r[j].userRating.count
                                 >= r[j].userRating.sum * r[i].userRating.count

\* the index holds more rated nodes than top_k, top_k records came back and
\* their rating order is not their similarity order
C2_Witness ==
    /\ Retrieved
    /\ Len(items) = TopK
    /\ \A n \in Nodes : Len(db[n].ratings) > 0
    /\ \E i, j \in 1..Len(items) :
         /\ i < j
         /\ items[i].similarityScore < items[j].similarityScore
         /\ items[i].userRating.sum * items[j].userRating.count
              > items[j].userRating.sum * items[i].userRating.count

\* C3: when retrieval returns nothing the generator is still invoked, with
\* the explicit "no supporting evidence found" context.
C3_NoEvidenceContext ==
    (Retrieved /\ items = << >> /\ InLog("generate")) => prompt = NoEvidenceContext

\* C5: when one of the three connection parameters is absent the run fails
\* at startup, at the driver line: it never gets past it, and never fails at
\* the first use of the connection instead.
C5_FailsAtStartup ==
    ~EnvComplete => /\ pc \in {"driver", "error"}
                    /\ pc = "error" => failedAt = "driver"

IsList(x) == x # Null /\ DOMAIN x = 1..Len(x)

\* C7: in every retrieved record genres and actors are lists, possibly
\* empty, never absent.
C7_GenresActorsAreLists ==
    \A i \in 1..Len(items) : IsList(items[i].genres) /\ IsList(items[i].actors)

\* a record of a node without IN_GENRE and ACTED_IN relationships came back
C7_Witness ==
    /\ Retrieved
    /\ \E i \in 1..Len(items) : items[i].genres = << >> /\ items[i].actors = << >>
    /\ \E i \in 1..Len(items) : Len(items[i].actors) = 2

\* C8: the steps happen in the one order of the script (open, embedding,
\* index search and enrichment, one generation, answer printed, context
\* printed, close); a run that completes performed them all; close happens
\* at most once and nothing uses the connection after it.
C8_FixedStepOrder ==
    /\ IsPrefix(log, StepOrder)
    /\ pc = "done" => log = StepOrder
    /\ IsPrefix([i \in 1..Len(stdout) |-> stdout[i].what], <<"answer", "context">>)
    /\ Len(stdout) >= 1 => stdout[1].answer = response.answer
    /\ Len(stdout) = 2 => stdout[2].context = response.retriever_result
    /\ driver = "closed" <=> pc = "done"
    /\ driver = "none" => log = << >>

C8_Witness == pc = "done" /\ log = StepOrder /\ Len(stdout) = 2 /\ driver = "closed"

\* the steps performed when the given call raised
LogAtFailure(step) ==
    CASE step = "embed" -> SubSeq(StepOrder, 1, 2)
      [] step = "retrieve" -> SubSeq(StepOrder, 1, 3)
      [] step = "generate" -> SubSeq(StepOrder, 1, 6)
      [] OTHER -> log

\* C9: a failure of the embedding, the retrieval or the generation call is
\* not caught: the run is in the error state with no answer and no context
\* printed and no response, and no step is taken after it.
C9_ErrorsPropagate ==
    [][ /\ pc # "error"
        /\ failedAt' \in {"embed", "retrieve", "generate"} =>
             /\ pc' = "error"
             /\ stdout' = << >>
             /\ response' = NoResponse
             /\ log' = LogAtFailure(failedAt') ]_vars

C9_Witness == pc = "error" /\ failedAt = "generate" /\ items # << >>

\* C10: a candidate without incoming RATED relationships is not in the
\* result; every record's userRating is the mean of at least one rating;
\* so the result can be shorter than the candidate list.
C10_UnratedNeverReturned ==
    Retrieved =>
        /\ \A i \in 1..Len(items) : items[i].userRating.count >= 1
        /\ \A n \in VectorSearch(TopK) :
             Len(db[n].ratings) = 0 =>
                 \A i \in 1..Len(items) :
                     ~(items[i].title = db[n].title /\ items[i].plot = db[n].plot
                       /\ items[i].similarityScore = score(n))
        /\ Len(items) <= Cardinality({n \in VectorSearch(TopK) : Len(db[n].ratings) > 0})

\* some candidates are unrated and the result is shorter than the candidates
C10_Witness ==
    /\ Retrieved
    /\ \E n \in VectorSearch(TopK) : Len(db[n].ratings) = 0
    /\ Len(items) >= 2
    /\ Len(items) < Cardinality(VectorSearch(TopK))

====
